---- MODULE Spec2Model ----
(***************************************************************************)
(* asynkets: Pulse / TimePulse (pulse.py), Ticker (constant_timer.py),     *)
(* Switch (switch.py) and EventfulCounter (eventful_counter.py) running on *)
(* an asyncio event loop.                                                  *)
(*                                                                         *)
(* Conventions                                                             *)
(*  - an object is a record of its fields;                                 *)
(*  - an Optional value is a set with at most one element ({} is None);    *)
(*  - a method is an operator from the object (and the futures table, and  *)
(*    loop.time()) to a result record holding the new object, the new      *)
(*    futures table, the futures it resolved, the tasks it released and    *)
(*    the exception it raised ("" when it returned normally);              *)
(*  - the event loop is its clock `now`, its FIFO `ready` queue and the    *)
(*    number `batch` of handles left to run in the current iteration.      *)
(***************************************************************************)
EXTENDS Integers, Sequences, FiniteSets, TLC

\* ---------------------------------------------------------------- bounds
MaxTime   == 3    \* the clock stops advancing here
MaxPeriod == 1    \* periods range over 0..MaxPeriod clock units
MaxCount  == 2    \* count ranges over None, -1 .. MaxCount
MaxFuts   == 3    \* futures created by pulse.wait() calls
MaxAwaits == 1    \* user tasks awaiting the ticker or the time pulse
MaxFires  == 3    \* user-level Pulse.fire() calls
MaxWaiters == 2   \* tasks that call a waiting method of the switch
MaxValue  == 3    \* counter values and bounds range over 0 .. MaxValue
MaxCounterWaiters == 1   \* tasks that call a waiting method of the counter

MaxIter   == MaxCount + 2          \* cap of the tick counters
Periods   == 0 .. MaxPeriod
Counts    == {{}} \cup {{k} : k \in (0 - 1) .. MaxCount}
StartTimes == 0 .. 1               \* loop.time() at construction
Waiters   == 1 .. MaxWaiters
Values    == 0 .. MaxValue
Bounds    == {{}} \cup {{v} : v \in Values}   \* Optional bound
Bys       == 1 .. 2                \* arguments of inc / dec

Min(S) == CHOOSE x \in S : \A y \in S : x <= y

\* ------------------------------------------------------- asyncio.Future
\* st: "pending" | "done" | "cancelled"; result: Optional timestamp;
\* cb: who is called back on completion ("A": a user task awaiting the
\* future, "C": asyncio.wait's _on_completion of the iterating consumer);
\* reg / by (history): number of fire() calls of the owning pulse begun
\* before the future was registered / the fire() call that resolved it.
NewFuture(cb, reg) ==
  [st |-> "pending", result |-> {}, cb |-> cb, reg |-> reg, by |-> 0]

\* ------------------------------------------------------------ _BasePulse
\* waiters: the deque; value: Optional last fired time;
\* fires (history): number of _fire() calls begun so far.
NewPulse == [waiters |-> <<>>, value |-> {}, fires |-> 0]

\* Level-triggered variant: a wait() after a firing is served from _value.
Pulse_wait_replay(p, fs, cb) ==
  [pulse |-> [p EXCEPT !.waiters = IF p.value = {} THEN Append(@, Len(fs) + 1) ELSE @],
   futs  |-> Append(fs, IF p.value = {} THEN NewFuture(cb, p.fires)
                        ELSE [st |-> "done", result |-> p.value, cb |-> cb,
                              reg |-> p.fires, by |-> p.fires]),
   fut   |-> Len(fs) + 1]

\* _BasePulse.wait: create a future, append it to the deque, return it.
Pulse_wait(p, fs, cb) ==
  [pulse |-> [p EXCEPT !.waiters = Append(@, Len(fs) + 1)],
   futs  |-> Append(fs, NewFuture(cb, p.fires)),
   fut   |-> Len(fs) + 1]

\* _BasePulse._fire at loop time t.  Future.set_result raises
\* InvalidStateError on a future that is not pending; the loop over the
\* deque then stops and the deque is not cleared.
Pulse_fire(p, fs, t) ==
  LET w    == p.waiters
      bad  == {i \in 1 .. Len(w) : fs[w[i]].st # "pending"}
      k    == IF bad = {} THEN Len(w) + 1 ELSE Min(bad)
      hit  == {w[i] : i \in 1 .. (k - 1)}
  IN  [pulse  |-> [waiters |-> IF bad = {} THEN <<>> ELSE w,
                   value   |-> {t},
                   fires   |-> p.fires + 1],
       futs   |-> [f \in DOMAIN fs |->
                     IF f \in hit
                     THEN [fs[f] EXCEPT !.st = "done", !.result = {t},
                                        !.by = p.fires + 1]
                     ELSE fs[f]],
       woken  |-> SubSeq(w, 1, k - 1),
       raised |-> IF bad = {} THEN "" ELSE "InvalidStateError"]

\* Future.cancel() of a pending future.
Future_cancel(fs, f) == [fs EXCEPT ![f].st = "cancelled"]

\* --------------------------------------------------------- asyncio.Event
NewEvent == [value |-> FALSE, waiters |-> <<>>]

\* Variant of Event.set that sets the flag and wakes nobody.
Event_set_no_wake(ev) ==
  [event |-> [ev EXCEPT !.value = TRUE], released |-> <<>>]

\* Event.set: wake every task waiting on the event.
Event_set(ev) ==
  IF ev.value THEN [event |-> ev, released |-> <<>>]
  ELSE [event |-> [value |-> TRUE, waiters |-> <<>>], released |-> ev.waiters]

\* ------------------------------------------------------ asyncio timers
\* A TimerHandle: phase "heap" (scheduled), "ready" (moved to the ready
\* queue), "run" (taken off the queue).  NoHandle is None.
NoHandle == [set |-> FALSE, when |-> 0, cancelled |-> FALSE, phase |-> "none"]
call_at(when) == [set |-> TRUE, when |-> when, cancelled |-> FALSE, phase |-> "heap"]
Scheduled(h) == h.set /\ ~h.cancelled /\ h.phase \in {"heap", "ready"}

\* ----------------------------------------------------------------- Ticker
Ticker_init(period, count, t) ==
  [iteration_count |-> 0, ready_pulse |-> NewPulse, done_event |-> NewEvent,
   period |-> period, start_time |-> t, count |-> count, started |-> FALSE,
   tick_handle |-> NoHandle]

is_done(self) == self.done_event.value

Result(self, fs, woken, released, raised, fired) ==
  [self |-> self, futs |-> fs, woken |-> woken, released |-> released,
   raised |-> raised, fired |-> fired]

\* Variant of stop that sets the done event and leaves the timer scheduled.
Ticker_stop_no_cancel(self, fs) ==
  IF self.tick_handle.set
  THEN LET e == Event_set(self.done_event)
       IN  Result([self EXCEPT !.done_event = e.event], fs, <<>>, e.released, "", FALSE)
  ELSE Result(self, fs, <<>>, <<>>, "", FALSE)

\* Ticker.stop
Ticker_stop(self, fs) ==
  IF self.tick_handle.set
  THEN LET e == Event_set(self.done_event)
       IN  Result([self EXCEPT !.tick_handle.cancelled = TRUE,
                               !.done_event = e.event],
                  fs, <<>>, e.released, "", FALSE)
  ELSE Result(self, fs, <<>>, <<>>, "", FALSE)

\* Drifting variant: after the first tick the deadline is "now + period".
next_time_drift(self, t) ==
  IF self.iteration_count = 0 THEN self.start_time ELSE t + self.period

\* next_time = self._iteration_count * self._period + self._start_time
next_time(self, t) == self.iteration_count * self.period + self.start_time

\* Ticker._tick at loop time t
Ticker_tick(self, fs, t) ==
  IF is_done(self) THEN Result(self, fs, <<>>, <<>>, "", FALSE)
  ELSE IF \E k \in self.count : self.iteration_count > k
  THEN Ticker_stop(self, fs)
  ELSE LET r == Pulse_fire(self.ready_pulse, fs, t)
       IN  IF r.raised # ""
           THEN Result([self EXCEPT !.ready_pulse = r.pulse],
                       r.futs, r.woken, <<>>, r.raised, TRUE)
           ELSE Result([self EXCEPT !.ready_pulse = r.pulse,
                                    !.iteration_count = @ + 1,
                                    !.tick_handle = call_at(next_time(self, t))],
                       r.futs, r.woken, <<>>, "", TRUE)

\* Variant of start without the "already started" test.
Ticker_start_again(self, fs, t) ==
  Ticker_tick([self EXCEPT !.started = TRUE, !.start_time = t], fs, t)

\* Ticker.start at loop time t
Ticker_start(self, fs, t) ==
  IF self.started
  THEN Result(self, fs, <<>>, <<>>, "RuntimeError", FALSE)
  ELSE Ticker_tick([self EXCEPT !.started = TRUE, !.start_time = t], fs, t)

\* Ticker.__init__
Ticker_new(period, count, start, t) ==
  IF start THEN Ticker_start(Ticker_init(period, count, t), <<>>, t)
  ELSE Result(Ticker_init(period, count, t), <<>>, <<>>, <<>>, "", FALSE)

\* Ticker.until_next at loop time t: the exception raised ("" when none) and
\* the seconds of the timedelta returned.
Ticker_until_next(self, t) ==
  IF ~self.tick_handle.set THEN [raised |-> "RuntimeError", value |-> 0]
  ELSE IF is_done(self) THEN [raised |-> "RuntimeError", value |-> 0]
  ELSE [raised |-> "", value |-> self.tick_handle.when - t]

\* -------------------------------------------------------------- TimePulse
\* TimePulse.__init__: schedules _tick at start_time + period.
TimePulse_init(period, t) ==
  [pulse |-> NewPulse, period |-> period, start_time |-> t, ticks |-> 0,
   handle |-> call_at(t + period)]

NoTimePulse ==
  [pulse |-> NewPulse, period |-> 0, start_time |-> 0, ticks |-> 0,
   handle |-> NoHandle]

\* TimePulse._tick at loop time t
TimePulse_tick(self, fs, t) ==
  LET r == Pulse_fire(self.pulse, fs, t)
  IN  IF r.raised # ""
      THEN Result([self EXCEPT !.pulse = r.pulse], r.futs, r.woken, <<>>,
                  r.raised, TRUE)
      ELSE Result([self EXCEPT !.pulse = r.pulse,
                               !.ticks = @ + 1,
                               !.handle = call_at(self.start_time
                                                  + self.period * (self.ticks + 1))],
                  r.futs, r.woken, <<>>, "", TRUE)


\* ----------------------------------------------------------------- Switch
\* Event.clear
Event_clear(ev) == [ev EXCEPT !.value = FALSE]

\* The result of a Switch method: the new switch and the tasks it released.
Kept(self) == [self |-> self, released |-> <<>>]

\* Variant of set that turns the switch on only while the "off" event is set.
Switch_set_by_event(self) ==
  IF self.ev_off.value
  THEN LET e == Event_set(self.ev_on)
       IN  [self |-> [state |-> TRUE, ev_on |-> e.event,
                      ev_off |-> Event_clear(self.ev_off)],
            released |-> e.released]
  ELSE Kept(self)

\* Variant of set without the test of _state.
Switch_set_always(self) ==
  LET e == Event_set(self.ev_on)
  IN  [self |-> [state |-> TRUE, ev_on |-> e.event,
                 ev_off |-> Event_clear(self.ev_off)],
       released |-> e.released]

\* Switch.set
Switch_set(self) ==
  IF ~self.state
  THEN LET e == Event_set(self.ev_on)
       IN  [self |-> [state |-> TRUE, ev_on |-> e.event,
                      ev_off |-> Event_clear(self.ev_off)],
            released |-> e.released]
  ELSE Kept(self)

\* Variant of clear that sets the "off" event's flag and wakes nobody.
Switch_clear_silent(self) ==
  IF self.state
  THEN [self |-> [state |-> FALSE,
                  ev_off |-> [self.ev_off EXCEPT !.value = TRUE],
                  ev_on |-> Event_clear(self.ev_on)],
        released |-> <<>>]
  ELSE Kept(self)

\* Switch.clear
Switch_clear(self) ==
  IF self.state
  THEN LET e == Event_set(self.ev_off)
       IN  [self |-> [state |-> FALSE, ev_off |-> e.event,
                      ev_on |-> Event_clear(self.ev_on)],
            released |-> e.released]
  ELSE Kept(self)

\* Switch.set_state
Switch_set_state(self, state) ==
  IF state THEN Switch_set(self) ELSE Switch_clear(self)

\* Switch.__init__
Switch_new(initial_state) ==
  Switch_set_state([state |-> initial_state, ev_on |-> NewEvent, ev_off |-> NewEvent],
                   initial_state).self

Switch_is_set(self) == self.state
Switch_is_clear(self) == ~self.state

\* Variant in which wait_toggle_to(state) only waits for `state`.
Switch_waits_no_toggle(self, op, state) ==
  CASE op = "wait"           -> <<TRUE>>
    [] op = "wait_clear"     -> <<FALSE>>
    [] op = "wait_for"       -> <<state>>
    [] op = "wait_toggle"    -> <<~self.state>>
    [] op = "wait_toggle_to" -> <<state>>

\* The waits a call of a waiting method performs, in order, each named by
\* the state it waits for: wait is <<TRUE>>, wait_clear is <<FALSE>>.
Switch_waits(self, op, state) ==
  CASE op = "wait"           -> <<TRUE>>
    [] op = "wait_clear"     -> <<FALSE>>
    [] op = "wait_for"       -> <<state>>
    [] op = "wait_toggle"    -> <<~self.state>>
    [] op = "wait_toggle_to" -> <<~state, state>>

Switch_event(self, state) == IF state THEN self.ev_on ELSE self.ev_off

\* A task runs the waits `todo` until it must suspend: wait() and
\* wait_clear() return at once when the switch is in the state waited for,
\* Event.wait() returns at once when the event is set.  The result is what
\* is left, starting with the wait the task is suspended in (<<>> when the
\* call returns).
RECURSIVE Switch_proceed(_, _)
Switch_proceed(self, todo) ==
  IF todo = <<>> THEN <<>>
  ELSE IF self.state = Head(todo) \/ Switch_event(self, Head(todo)).value
  THEN Switch_proceed(self, Tail(todo))
  ELSE todo

\* --------------------------------------------------------- EventfulCounter
\* The value of an Optional that is not None.
Val(opt) == CHOOSE x \in opt : TRUE

CounterResult(self, released, raised) ==
  [self |-> self, released |-> released, raised |-> raised]

\* Variant of set that does not clamp at the minimum.
Counter_set_no_min_clamp(self, value) ==
  LET c1      == value
      at_max  == \E M \in self.max_value : c1 >= M
      max1    == IF at_max THEN Switch_set(self.max_ev) ELSE Kept(self.max_ev)
      c2      == IF at_max /\ self.clamp_to_bounds THEN Val(self.max_value) ELSE c1
      off_min == Switch_is_set(self.min_ev) /\ \E m \in self.min_value : c2 > m
      min1    == IF off_min THEN Switch_clear(self.min_ev) ELSE Kept(self.min_ev)
      at_min  == \E m \in self.min_value : c2 <= m
      min2    == IF at_min THEN Switch_set(min1.self) ELSE Kept(min1.self)
      c3      == c2
      off_max == Switch_is_set(max1.self) /\ \E M \in self.max_value : c3 < M
      max2    == IF off_max THEN Switch_clear(max1.self) ELSE Kept(max1.self)
  IN  CounterResult([self EXCEPT !.counter = c3, !.min_ev = min2.self,
                                 !.max_ev = max2.self],
                    max1.released \o min1.released \o min2.released \o max2.released,
                    IF \/ Switch_is_set(self.min_ev) /\ self.min_value = {}
                       \/ Switch_is_set(max1.self) /\ self.max_value = {}
                    THEN "TypeError" ELSE "")

\* EventfulCounter.set.  Comparing with a bound that is None raises
\* TypeError (it takes a latch that is on while its bound is None).
Counter_set(self, value) ==
  LET c1      == value
      at_max  == \E M \in self.max_value : c1 >= M
      max1    == IF at_max THEN Switch_set(self.max_ev) ELSE Kept(self.max_ev)
      c2      == IF at_max /\ self.clamp_to_bounds THEN Val(self.max_value) ELSE c1
      off_min == Switch_is_set(self.min_ev) /\ \E m \in self.min_value : c2 > m
      min1    == IF off_min THEN Switch_clear(self.min_ev) ELSE Kept(self.min_ev)
      at_min  == \E m \in self.min_value : c2 <= m
      min2    == IF at_min THEN Switch_set(min1.self) ELSE Kept(min1.self)
      c3      == IF at_min /\ self.clamp_to_bounds THEN Val(self.min_value) ELSE c2
      off_max == Switch_is_set(max1.self) /\ \E M \in self.max_value : c3 < M
      max2    == IF off_max THEN Switch_clear(max1.self) ELSE Kept(max1.self)
  IN  CounterResult([self EXCEPT !.counter = c3, !.min_ev = min2.self,
                                 !.max_ev = max2.self],
                    max1.released \o min1.released \o min2.released \o max2.released,
                    IF \/ Switch_is_set(self.min_ev) /\ self.min_value = {}
                       \/ Switch_is_set(max1.self) /\ self.max_value = {}
                    THEN "TypeError" ELSE "")

\* EventfulCounter.inc / dec (and += / -=, which call them)
Counter_inc(self, by) == Counter_set(self, self.counter + by)
Counter_dec(self, by) == Counter_set(self, self.counter - by)

\* Variant of the min_value setter without the test against max_value.
Counter_set_min_value_unchecked(self, value) ==
  IF value = {}
  THEN LET r == Switch_set_state(self.min_ev, FALSE)
       IN  CounterResult([self EXCEPT !.min_value = {}, !.min_ev = r.self],
                         r.released, "")
  ELSE Counter_set([self EXCEPT !.min_value = value], self.counter)

\* The min_value setter; `value` is an Optional.
Counter_set_min_value(self, value) ==
  IF value = {}
  THEN LET r == Switch_set_state(self.min_ev, FALSE)
       IN  CounterResult([self EXCEPT !.min_value = {}, !.min_ev = r.self],
                         r.released, "")
  ELSE IF \E M \in self.max_value : Val(value) > M
  THEN CounterResult(self, <<>>, "ValueError")
  ELSE Counter_set([self EXCEPT !.min_value = value], self.counter)

\* The max_value setter; `value` is an Optional.
Counter_set_max_value(self, value) ==
  IF value = {}
  THEN LET r == Switch_set_state(self.max_ev, FALSE)
       IN  CounterResult([self EXCEPT !.max_value = {}, !.max_ev = r.self],
                         r.released, "")
  ELSE IF \E m \in self.min_value : Val(value) < m
  THEN CounterResult(self, <<>>, "ValueError")
  ELSE Counter_set([self EXCEPT !.max_value = value], self.counter)

\* EventfulCounter.__init__
Counter_new(initial_value, max_value, min_value, clamp_to_bounds) ==
  Counter_set([counter |-> initial_value, max_value |-> max_value,
               min_value |-> min_value, clamp_to_bounds |-> clamp_to_bounds,
               min_ev |-> Switch_new(FALSE), max_ev |-> Switch_new(FALSE)],
              initial_value).self

Counter_min_is_set(self) == Switch_is_set(self.min_ev)
Counter_max_is_set(self) == Switch_is_set(self.max_ev)

\* ------------------------------------------------------------------ state
VARIABLES
  now,         \* loop.time()
  ready,       \* the loop's FIFO of handles to run (loop._ready)
  batch,       \* handles of `ready` left to run in the current loop iteration
  futs,        \* every future created so far, by identity 1 .. Len(futs)
  pulse,       \* a Pulse
  time_pulse,  \* a TimePulse
  ticker,      \* a Ticker
  wd,          \* a task that calls ticker.wait_done()
  it,          \* a task that iterates the ticker (Ticker._aiter)
  df,          \* the done_future task created by Ticker._aiter
  hist,        \* history: firings of the ticker and of the time pulse
  switch,      \* a Switch
  waiter,      \* the tasks that call the switch's waiting methods
  ecounter,    \* an EventfulCounter
  last         \* history: the most recent call on the switch / the counter

vars == <<now, ready, batch, futs, pulse, time_pulse, ticker, wd, it, df, hist,
          switch, waiter, ecounter, last>>

\* The variables of the switch and the counter, and those of the timers.
latch_vars == <<switch, waiter, ecounter, last>>
timer_vars == <<now, futs, pulse, time_pulse, ticker, wd, it, df, hist>>

Item(kind, task, round) == [kind |-> kind, task |-> task, round |-> round]

\* The callbacks that completing the futures `done` schedules (call_soon):
\* asyncio.wait's _on_completion for a future the iterating task waits on.
Callbacks(done, fs, round) ==
  LET sel == SelectSeq(done, LAMBDA f : fs[f].cb = "C")
  IN  [i \in 1 .. Len(sel) |-> Item("on_completion", "C", round)]

\* The wake-ups of the tasks an Event.set() released.
Wakes(released) == [i \in 1 .. Len(released) |-> Item("wake", released[i], 0)]

NoTicker == Ticker_init(0, {}, 0)
\* fn: "" for a plain `async for`, else the function run_periodically was
\* given ("sync", "thread": sync with to_thread, "coro"); base (history):
\* the firings before the task was spawned.
IdleIt   == [pc |-> "idle", round |-> 0, cur |-> 0, woken |-> FALSE,
             received |-> 0, fresh |-> FALSE, fn |-> "", base |-> 0]
IdleDf   == [pc |-> "none", cb |-> FALSE]
NoHist   == [fired |-> <<>>, tp_fired |-> <<>>, done_by |-> "", auto |-> FALSE]

Firing(deadline, self) == [deadline |-> deadline, ic |-> self.iteration_count]

InitCommon ==
  /\ ready = <<>>
  /\ batch = 0
  /\ futs = <<>>
  /\ wd = "idle"
  /\ it = IdleIt
  /\ df = IdleDf

\* A task that has not called a waiting method of the switch.  todo: the
\* waits left; history: suspended (the call suspended), rose / fell (the
\* switch went off->on / on->off since the call), at_call / at_return (the
\* state of the switch when the call was made / returned), due (the switch
\* went to the state the task is suspended waiting for, and the task has
\* not been resumed since).
IdleWaiter ==
  [pc |-> "idle", op |-> "", state |-> FALSE, todo |-> <<>>, suspended |-> FALSE,
   rose |-> FALSE, fell |-> FALSE, at_call |-> FALSE, at_return |-> FALSE,
   due |-> FALSE]

NoLast == [state |-> {}, op |-> "", arg |-> {}, raised |-> ""]

InitWaiters ==
  /\ waiter = [w \in Waiters |-> IdleWaiter]
  /\ last = NoLast

\* No switch or counter is in use.
InitNoLatch ==
  /\ InitWaiters
  /\ switch = Switch_new(FALSE)
  /\ ecounter = Counter_new(0, {}, {}, FALSE)

\* No pulse or ticker is in use.
InitNoTimer ==
  /\ InitCommon
  /\ now = 0
  /\ pulse = NewPulse
  /\ time_pulse = NoTimePulse
  /\ ticker = NoTicker
  /\ hist = NoHist

\* A program that has constructed a Switch(initial_state).
InitSwitch ==
  /\ InitNoTimer
  /\ InitWaiters
  /\ \E b \in BOOLEAN : switch = Switch_new(b)
  /\ ecounter = Counter_new(0, {}, {}, FALSE)

\* A program that has constructed an EventfulCounter(initial_value,
\* max_value, min_value, clamp_to_bounds) with min_value <= max_value.
InitCounter ==
  /\ InitNoTimer
  /\ InitWaiters
  /\ switch = Switch_new(FALSE)
  /\ \E v \in Values, M \in Bounds, m \in Bounds, c \in BOOLEAN :
       /\ \A x \in m, y \in M : x <= y
       /\ ecounter = Counter_new(v, M, m, c)

\* A program that has constructed a Pulse.
InitPulse ==
  /\ InitCommon
  /\ InitNoLatch
  /\ now \in StartTimes
  /\ pulse = NewPulse
  /\ time_pulse = NoTimePulse
  /\ ticker = NoTicker
  /\ hist = NoHist

\* A program that has constructed a TimePulse(period).
InitTimePulse ==
  /\ InitCommon
  /\ InitNoLatch
  /\ now \in StartTimes
  /\ pulse = NewPulse
  /\ \E p \in Periods : time_pulse = TimePulse_init(p, now)
  /\ ticker = NoTicker
  /\ hist = NoHist

\* A program that has constructed a Ticker(period, count, start).
InitTicker ==
  /\ InitCommon
  /\ InitNoLatch
  /\ now = 0
  /\ pulse = NewPulse
  /\ time_pulse = NoTimePulse
  /\ \E p \in Periods, c \in Counts, s \in BOOLEAN :
       LET r == Ticker_new(p, c, s, now)
       IN  /\ ticker = r.self
           /\ hist = [fired    |-> IF r.fired THEN <<Firing(now, r.self)>> ELSE <<>>,
                      tp_fired |-> <<>>,
                      done_by  |-> "",
                      auto     |-> s]

\* A program that has constructed a Ticker and a TimePulse of the same period.
InitTimers ==
  /\ InitCommon
  /\ InitNoLatch
  /\ now = 0
  /\ pulse = NewPulse
  /\ \E p \in Periods, c \in Counts, s \in BOOLEAN :
       LET r == Ticker_new(p, c, s, now)
       IN  /\ ticker = r.self
           /\ time_pulse = TimePulse_init(p, now)
           /\ hist = [fired    |-> IF r.fired THEN <<Firing(now, r.self)>> ELSE <<>>,
                      tp_fired |-> <<>>,
                      done_by  |-> "",
                      auto     |-> s]

\* ------------------------------------------------------- the event loop
\* Time passes (at any moment: callbacks take time).
AdvanceClock ==
  /\ now < MaxTime
  /\ now' = now + 1
  /\ UNCHANGED <<ready, batch, futs, pulse, time_pulse, ticker, wd, it, df, hist>>
  /\ UNCHANGED latch_vars

Due(h) == h.set /\ h.phase = "heap" /\ ~h.cancelled /\ h.when <= now

\* BaseEventLoop._run_once, first half: the timers that are due move to the
\* end of the ready queue and the handles now in the queue form the batch
\* this iteration runs.
run_once ==
  /\ batch = 0
  /\ ready # <<>> \/ Due(ticker.tick_handle) \/ Due(time_pulse.handle)
  /\ LET t1 == IF Due(ticker.tick_handle) THEN <<Item("tick", "", 0)>> ELSE <<>>
         t2 == IF Due(time_pulse.handle) THEN <<Item("tp_tick", "", 0)>> ELSE <<>>
     IN  /\ ready' = ready \o t1 \o t2
         /\ batch' = Len(ready')
  /\ ticker' = IF Due(ticker.tick_handle)
               THEN [ticker EXCEPT !.tick_handle.phase = "ready"] ELSE ticker
  /\ time_pulse' = IF Due(time_pulse.handle)
                   THEN [time_pulse EXCEPT !.handle.phase = "ready"] ELSE time_pulse
  /\ UNCHANGED <<now, futs, pulse, wd, it, df, hist>>
  /\ UNCHANGED latch_vars

Running(kind) == batch > 0 /\ ready # <<>> /\ Head(ready).kind = kind

\* The post-state of a Ticker method whose result is r; `rest` is the ready
\* queue it started from, `deadline` the deadline of the call, `who` the
\* cause recorded when the call made the ticker done.
TickerStep(r, rest, deadline, who) ==
  /\ ticker' = r.self
  /\ futs' = r.futs
  /\ ready' = rest \o Callbacks(r.woken, futs, it.round) \o Wakes(r.released)
  /\ hist' = [hist EXCEPT
                !.fired   = IF r.fired THEN Append(@, Firing(deadline, r.self)) ELSE @,
                !.done_by = IF is_done(r.self) /\ ~is_done(ticker) THEN who ELSE @]

\* The loop runs the ticker's timer handle: TimerHandle._run -> Ticker._tick.
\* A handle cancelled while in the ready queue is skipped.
run_tick ==
  /\ Running("tick")
  /\ ticker.tick_handle.cancelled \/ ticker.iteration_count < MaxIter
  /\ batch' = batch - 1
  /\ LET h == ticker.tick_handle
     IN  IF h.cancelled
         THEN /\ ticker' = [ticker EXCEPT !.tick_handle.phase = "run"]
              /\ ready' = Tail(ready)
              /\ UNCHANGED <<futs, hist>>
         ELSE TickerStep(Ticker_tick([ticker EXCEPT !.tick_handle.phase = "run"],
                                     futs, now),
                         Tail(ready), h.when, "count")
  /\ UNCHANGED <<now, pulse, time_pulse, wd, it, df>>
  /\ UNCHANGED latch_vars

\* The loop runs the time pulse's timer handle: TimePulse._tick.
run_tp_tick ==
  /\ Running("tp_tick")
  /\ time_pulse.ticks < MaxIter
  /\ batch' = batch - 1
  /\ LET h == time_pulse.handle
         r == TimePulse_tick([time_pulse EXCEPT !.handle.phase = "run"], futs, now)
     IN  /\ time_pulse' = r.self
         /\ futs' = r.futs
         /\ ready' = Tail(ready)
         /\ hist' = [hist EXCEPT !.tp_fired = Append(@, h.when)]
  /\ UNCHANGED <<now, pulse, ticker, wd, it, df>>
  /\ UNCHANGED latch_vars


\* ------------------------------------------------------ user-level calls
UserFuts == {f \in DOMAIN futs : futs[f].cb = "A"}

\* pulse.wait() on the Pulse, by a user task that then awaits the future.
pulse_wait ==
  /\ Cardinality(UserFuts) < MaxFuts
  /\ LET r == Pulse_wait(pulse, futs, "A")
     IN  /\ pulse' = r.pulse
         /\ futs' = r.futs
  /\ UNCHANGED <<now, ready, batch, time_pulse, ticker, wd, it, df, hist>>
  /\ UNCHANGED latch_vars

\* pulse.fire()
pulse_fire ==
  /\ pulse.fires < MaxFires
  /\ LET r == Pulse_fire(pulse, futs, now)
     IN  /\ pulse' = r.pulse
         /\ futs' = r.futs
  /\ UNCHANGED <<now, ready, batch, time_pulse, ticker, wd, it, df, hist>>
  /\ UNCHANGED latch_vars

\* A user task awaiting a future is cancelled: Task.cancel() cancels the
\* future the task is waiting on.
cancel ==
  /\ \E f \in UserFuts :
       /\ futs[f].st = "pending"
       /\ futs' = Future_cancel(futs, f)
  /\ UNCHANGED <<now, ready, batch, pulse, time_pulse, ticker, wd, it, df, hist>>
  /\ UNCHANGED latch_vars

\* `await time_pulse` by a user task: _BasePulse.__await__ -> wait().
tp_wait ==
  /\ Cardinality(UserFuts) < MaxAwaits
  /\ LET r == Pulse_wait(time_pulse.pulse, futs, "A")
     IN  /\ time_pulse' = [time_pulse EXCEPT !.pulse = r.pulse]
         /\ futs' = r.futs
  /\ UNCHANGED <<now, ready, batch, pulse, ticker, wd, it, df, hist>>
  /\ UNCHANGED latch_vars

\* `await ticker` by a user task: Ticker.__await__ -> _ready_pulse.wait().
ticker_await ==
  /\ Cardinality(UserFuts) < MaxAwaits
  /\ LET r == Pulse_wait(ticker.ready_pulse, futs, "A")
     IN  /\ ticker' = [ticker EXCEPT !.ready_pulse = r.pulse]
         /\ futs' = r.futs
  /\ UNCHANGED <<now, ready, batch, pulse, time_pulse, wd, it, df, hist>>
  /\ UNCHANGED latch_vars

\* ticker.start()
start ==
  /\ ticker.iteration_count < MaxIter
  /\ LET r == Ticker_start(ticker, futs, now)
     IN  /\ TickerStep(r, ready, now, "count")
  /\ UNCHANGED <<now, batch, pulse, time_pulse, wd, it, df>>
  /\ UNCHANGED latch_vars

\* ticker.stop()
stop ==
  /\ LET r == Ticker_stop(ticker, futs)
     IN  /\ TickerStep(r, ready, now, "stop")
  /\ UNCHANGED <<now, batch, pulse, time_pulse, wd, it, df>>
  /\ UNCHANGED latch_vars

\* A task calls `await ticker.wait_done()`: Event.wait returns at once when
\* the event is set, and otherwise suspends the task on the event.
wait_done ==
  /\ wd = "idle"
  /\ IF is_done(ticker)
     THEN /\ wd' = "returned"
          /\ UNCHANGED ticker
     ELSE /\ wd' = "waiting"
          /\ ticker' = [ticker EXCEPT !.done_event.waiters = Append(@, "W")]
  /\ UNCHANGED <<now, ready, batch, futs, pulse, time_pulse, it, df, hist>>
  /\ UNCHANGED latch_vars

\* The loop resumes the task suspended in wait_done().
run_wake_W ==
  /\ Running("wake") /\ Head(ready).task = "W"
  /\ batch' = batch - 1
  /\ ready' = Tail(ready)
  /\ wd' = "returned"
  /\ UNCHANGED <<now, futs, pulse, time_pulse, ticker, it, df, hist>>
  /\ UNCHANGED latch_vars

\* ------------------------------------------------------- Ticker._aiter
\* The iterating task registers a pulse future and suspends in
\* asyncio.wait({pulse, done_future}, return_when=FIRST_COMPLETED), which
\* adds _on_completion to both and awaits its own waiter future.
aiter_wait(tk, fs, received, fresh) ==
  LET r == Pulse_wait(tk.ready_pulse, fs, "C")
  IN  /\ ticker' = [tk EXCEPT !.ready_pulse = r.pulse]
      /\ futs' = r.futs
      /\ it' = [it EXCEPT !.pc = "waiting", !.round = @ + 1, !.cur = r.fut,
                          !.woken = FALSE, !.received = received, !.fresh = fresh]

\* A task starts `async for t in ticker` (its body does not suspend).
\* `fresh` records that it does so right after the constructor started the
\* ticker: the first scheduled tick has not run.
aiter ==
  /\ it.pc = "idle"
  /\ IF is_done(ticker)
     THEN /\ it' = [it EXCEPT !.pc = "finished"]
          /\ UNCHANGED <<ticker, futs, df, ready>>
     ELSE /\ df' = [pc |-> "created", cb |-> TRUE]
          /\ ready' = Append(ready, Item("wake", "D", 0))
          /\ aiter_wait(ticker, futs, 0,
                        /\ hist.auto
                        /\ ticker.iteration_count = 1
                        /\ ticker.tick_handle.phase = "heap"
                        /\ now = ticker.start_time)
  /\ UNCHANGED <<now, batch, pulse, time_pulse, wd, hist>>
  /\ UNCHANGED latch_vars

\* _on_completion of asyncio.wait: the first completion of the current wait
\* resolves its waiter future, which schedules the iterating task.
run_on_completion ==
  /\ Running("on_completion")
  /\ batch' = batch - 1
  /\ IF it.pc = "waiting" /\ Head(ready).round = it.round /\ ~it.woken
     THEN /\ it' = [it EXCEPT !.woken = TRUE]
          /\ ready' = Append(Tail(ready), Item("wake", "C", 0))
     ELSE /\ ready' = Tail(ready)
          /\ UNCHANGED it
  /\ UNCHANGED <<now, futs, pulse, time_pulse, ticker, wd, df, hist>>
  /\ UNCHANGED latch_vars

\* A step of the done_future task, which runs `await self._done_event.wait()`.
run_wake_D ==
  /\ Running("wake") /\ Head(ready).task = "D"
  /\ batch' = batch - 1
  /\ IF df.pc = "created" /\ ~is_done(ticker)
     THEN /\ df' = [df EXCEPT !.pc = "waiting"]
          /\ ticker' = [ticker EXCEPT !.done_event.waiters = Append(@, "D")]
          /\ ready' = Tail(ready)
     ELSE /\ df' = [df EXCEPT !.pc = "done"]
          /\ ready' = Tail(ready) \o
                      (IF df.cb THEN <<Item("on_completion", "C", it.round)>> ELSE <<>>)
          /\ UNCHANGED ticker
  /\ UNCHANGED <<now, futs, pulse, time_pulse, wd, it, hist>>
  /\ UNCHANGED latch_vars

\* The iterating task resumes from asyncio.wait, which removes its callbacks
\* and reports the futures that are done now: it returns when done_future is
\* among them, and otherwise yields the pulse's result and waits again.
run_wake_C ==
  /\ Running("wake") /\ Head(ready).task = "C"
  /\ it.pc = "waiting"
  /\ df.pc = "done" \/ it.fn # "thread"
  /\ batch' = batch - 1
  /\ ready' = Tail(ready)
  /\ IF df.pc = "done"
     THEN /\ it' = [it EXCEPT !.pc = "finished"]
          /\ df' = [df EXCEPT !.cb = FALSE]
          /\ futs' = [futs EXCEPT ![it.cur].cb = "none"]
          /\ UNCHANGED ticker
     ELSE /\ aiter_wait(ticker, [futs EXCEPT ![it.cur].cb = "none"],
                        it.received + 1, it.fresh)
          /\ UNCHANGED df
  /\ UNCHANGED <<now, pulse, time_pulse, wd, hist>>
  /\ UNCHANGED latch_vars

\* ------------------------------------------------- run_periodically
\* Ticker.run_periodically(fn, to_thread): create_task schedules the first
\* step of _run_periodically.  A coroutine function with to_thread raises.
run_periodically ==
  /\ it.pc = "idle"
  /\ \E coro \in BOOLEAN, to_thread \in BOOLEAN :
       /\ ~(to_thread /\ coro)
       /\ it' = [it EXCEPT !.pc = "spawned", !.base = Len(hist.fired),
                           !.fn = IF coro THEN "coro"
                                  ELSE IF to_thread THEN "thread" ELSE "sync"]
  /\ ready' = Append(ready, Item("wake", "C", 0))
  /\ UNCHANGED <<now, batch, futs, pulse, time_pulse, ticker, wd, df, hist>>
  /\ UNCHANGED latch_vars

\* The first step of the task: `async for _ in self` starts Ticker._aiter.
run_task_start ==
  /\ Running("wake") /\ Head(ready).task = "C"
  /\ it.pc = "spawned"
  /\ batch' = batch - 1
  /\ IF is_done(ticker)
     THEN /\ it' = [it EXCEPT !.pc = "finished"]
          /\ ready' = Tail(ready)
          /\ UNCHANGED <<ticker, futs, df>>
     ELSE /\ df' = [pc |-> "created", cb |-> TRUE]
          /\ ready' = Append(Tail(ready), Item("wake", "D", 0))
          /\ aiter_wait(ticker, futs, 0, FALSE)
  /\ UNCHANGED <<now, pulse, time_pulse, wd, hist>>
  /\ UNCHANGED latch_vars

\* The task resumes from asyncio.wait with a tick and calls fn, which
\* suspends (a coroutine function that awaits, or asyncio.to_thread).
run_call_fn ==
  /\ Running("wake") /\ Head(ready).task = "C"
  /\ it.pc = "waiting"
  /\ it.fn \in {"thread", "coro"}
  /\ df.pc # "done"
  /\ batch' = batch - 1
  /\ ready' = Tail(ready)
  /\ it' = [it EXCEPT !.pc = "in_fn", !.received = @ + 1]
  /\ futs' = [futs EXCEPT ![it.cur].cb = "none"]
  /\ df' = [df EXCEPT !.cb = FALSE]
  /\ UNCHANGED <<now, pulse, time_pulse, ticker, wd, hist>>
  /\ UNCHANGED latch_vars

\* What fn awaits completes: the task is scheduled.
fn_returns ==
  /\ it.pc = "in_fn"
  /\ it' = [it EXCEPT !.pc = "fn_done"]
  /\ ready' = Append(ready, Item("wake", "C", 0))
  /\ UNCHANGED <<now, batch, futs, pulse, time_pulse, ticker, wd, df, hist>>
  /\ UNCHANGED latch_vars

\* fn has returned: the task asks for the next tick, and asyncio.wait adds
\* its callback to done_future again, which schedules it at once when
\* done_future is already done.
run_fn_done ==
  /\ Running("wake") /\ Head(ready).task = "C"
  /\ it.pc = "fn_done"
  /\ batch' = batch - 1
  /\ ready' = Tail(ready) \o (IF df.pc = "done"
                               THEN <<Item("on_completion", "C", it.round + 1)>>
                               ELSE <<>>)
  /\ df' = [df EXCEPT !.cb = TRUE]
  /\ aiter_wait(ticker, futs, it.received, it.fresh)
  /\ UNCHANGED <<now, pulse, time_pulse, wd, hist>>
  /\ UNCHANGED latch_vars

\* ------------------------------------------------------- the switch
Resumes(released) == [i \in 1 .. Len(released) |-> Item("resume", released[i], 0)]

\* The post-state of a Switch method whose result is r, called to request
\* the state b.
SwitchStep(r, b) ==
  /\ switch' = r.self
  /\ ready' = ready \o Resumes(r.released)
  /\ waiter' = [w \in Waiters |->
                  IF waiter[w].pc = "suspended"
                  THEN [waiter[w] EXCEPT
                          !.rose = @ \/ (~switch.state /\ r.self.state),
                          !.fell = @ \/ (switch.state /\ ~r.self.state),
                          !.due  = @ \/ /\ switch.state # r.self.state
                                        /\ r.self.state = Head(waiter[w].todo)]
                  ELSE waiter[w]]
  /\ last' = [last EXCEPT !.state = {b}]

switch_set ==
  /\ SwitchStep(Switch_set(switch), TRUE)
  /\ UNCHANGED <<batch, ecounter>>
  /\ UNCHANGED timer_vars

switch_clear ==
  /\ SwitchStep(Switch_clear(switch), FALSE)
  /\ UNCHANGED <<batch, ecounter>>
  /\ UNCHANGED timer_vars

switch_set_state ==
  /\ \E b \in BOOLEAN : SwitchStep(Switch_set_state(switch, b), b)
  /\ UNCHANGED <<batch, ecounter>>
  /\ UNCHANGED timer_vars

\* The switch after task w has suspended in the wait that heads `todo`
\* (Event.wait appends the task's future to the event's waiters).
Suspend(self, w, todo) ==
  IF todo = <<>> THEN self
  ELSE IF Head(todo) THEN [self EXCEPT !.ev_on.waiters = Append(@, w)]
  ELSE [self EXCEPT !.ev_off.waiters = Append(@, w)]

\* The lowest task that has not made its call.
NextWaiter == Min({w \in Waiters : waiter[w].pc = "idle"})

\* A task calls the waiting method op (with argument state) and runs it up
\* to its first suspension, or to its return.
switch_call(op, state) ==
  /\ \E w \in Waiters : waiter[w].pc = "idle"
  /\ LET w    == NextWaiter
         todo == Switch_proceed(switch, Switch_waits(switch, op, state))
     IN  /\ waiter' = [waiter EXCEPT ![w] =
                         [pc |-> IF todo = <<>> THEN "returned" ELSE "suspended",
                          op |-> op, state |-> state, todo |-> todo,
                          suspended |-> todo # <<>>, rose |-> FALSE, fell |-> FALSE,
                          at_call |-> switch.state, at_return |-> switch.state,
                          due |-> FALSE]]
         /\ switch' = Suspend(switch, w, todo)

wait ==
  /\ switch_call("wait", TRUE)
  /\ UNCHANGED <<ready, batch, ecounter, last>>
  /\ UNCHANGED timer_vars

wait_clear ==
  /\ switch_call("wait_clear", FALSE)
  /\ UNCHANGED <<ready, batch, ecounter, last>>
  /\ UNCHANGED timer_vars

wait_for ==
  /\ \E b \in BOOLEAN : switch_call("wait_for", b)
  /\ UNCHANGED <<ready, batch, ecounter, last>>
  /\ UNCHANGED timer_vars

wait_toggle ==
  /\ switch_call("wait_toggle", FALSE)
  /\ UNCHANGED <<ready, batch, ecounter, last>>
  /\ UNCHANGED timer_vars

wait_toggle_to ==
  /\ \E b \in BOOLEAN : switch_call("wait_toggle_to", b)
  /\ UNCHANGED <<ready, batch, ecounter, last>>
  /\ UNCHANGED timer_vars

\* The loop resumes a task released by Event.set: Event.wait returns, and
\* the task runs on to its next suspension or to its return.
run_resume ==
  /\ Running("resume")
  /\ batch' = batch - 1
  /\ ready' = Tail(ready)
  /\ LET w    == Head(ready).task
         todo == Switch_proceed(switch, Tail(waiter[w].todo))
     IN  /\ waiter' = [waiter EXCEPT ![w] =
                         [@ EXCEPT !.pc = IF todo = <<>> THEN "returned" ELSE "suspended",
                                   !.todo = todo,
                                   !.at_return = switch.state,
                                   !.due = FALSE]]
         /\ switch' = Suspend(switch, w, todo)
  /\ UNCHANGED <<ecounter, last>>
  /\ UNCHANGED timer_vars

\* ------------------------------------------------------- the counter
CounterResumes(released) ==
  [i \in 1 .. Len(released) |-> Item("counter_resume", released[i], 0)]

\* The post-state of an EventfulCounter method whose result is r.
CounterStep(r, op, arg) ==
  /\ ecounter' = r.self
  /\ ready' = ready \o CounterResumes(r.released)
  /\ last' = [last EXCEPT !.op = op, !.arg = arg, !.raised = r.raised]
  /\ UNCHANGED <<batch, switch, waiter>>

counter_set ==
  /\ \E v \in Values : CounterStep(Counter_set(ecounter, v), "set", {v})
  /\ UNCHANGED timer_vars

counter_inc ==
  /\ \E by \in Bys : /\ ecounter.counter + by \in Values
                     /\ CounterStep(Counter_inc(ecounter, by), "inc", {by})
  /\ UNCHANGED timer_vars

counter_dec ==
  /\ \E by \in Bys : /\ ecounter.counter - by \in Values
                     /\ CounterStep(Counter_dec(ecounter, by), "dec", {by})
  /\ UNCHANGED timer_vars

\* counter += by
counter_iadd ==
  /\ \E by \in Bys : /\ ecounter.counter + by \in Values
                     /\ CounterStep(Counter_inc(ecounter, by), "iadd", {by})
  /\ UNCHANGED timer_vars

\* counter -= by
counter_isub ==
  /\ \E by \in Bys : /\ ecounter.counter - by \in Values
                     /\ CounterStep(Counter_dec(ecounter, by), "isub", {by})
  /\ UNCHANGED timer_vars

\* counter.min_value = b
counter_set_min_value ==
  /\ \E b \in Bounds : CounterStep(Counter_set_min_value(ecounter, b), "min_value", b)
  /\ UNCHANGED timer_vars

\* counter.max_value = b
counter_set_max_value ==
  /\ \E b \in Bounds : CounterStep(Counter_set_max_value(ecounter, b), "max_value", b)
  /\ UNCHANGED timer_vars

\* The latch a waiting method of the counter awaits, and the Switch method
\* it calls on it.
Counter_latch(self, op) ==
  IF op \in {"wait_max", "wait_max_clear"} THEN self.max_ev ELSE self.min_ev

Counter_latch_op(op) ==
  IF op \in {"wait_max", "wait_min"} THEN "wait" ELSE "wait_clear"

\* A task calls the waiting method op of the counter and runs it up to its
\* suspension, or to its return.
counter_call(op) ==
  /\ Cardinality({w \in Waiters : waiter[w].pc # "idle"}) < MaxCounterWaiters
  /\ LET w    == NextWaiter
         sw   == Counter_latch(ecounter, op)
         todo == Switch_proceed(sw, Switch_waits(sw, Counter_latch_op(op), FALSE))
     IN  /\ waiter' = [waiter EXCEPT ![w] =
                         [pc |-> IF todo = <<>> THEN "returned" ELSE "suspended",
                          op |-> op, state |-> Counter_latch_op(op) = "wait",
                          todo |-> todo,
                          suspended |-> todo # <<>>, rose |-> FALSE, fell |-> FALSE,
                          at_call |-> sw.state, at_return |-> sw.state,
                          due |-> FALSE]]
         /\ ecounter' = IF op \in {"wait_max", "wait_max_clear"}
                        THEN [ecounter EXCEPT !.max_ev = Suspend(sw, w, todo)]
                        ELSE [ecounter EXCEPT !.min_ev = Suspend(sw, w, todo)]

wait_max ==
  /\ counter_call("wait_max")
  /\ UNCHANGED <<ready, batch, switch, last>>
  /\ UNCHANGED timer_vars

wait_min ==
  /\ counter_call("wait_min")
  /\ UNCHANGED <<ready, batch, switch, last>>
  /\ UNCHANGED timer_vars

wait_max_clear ==
  /\ counter_call("wait_max_clear")
  /\ UNCHANGED <<ready, batch, switch, last>>
  /\ UNCHANGED timer_vars

wait_min_clear ==
  /\ counter_call("wait_min_clear")
  /\ UNCHANGED <<ready, batch, switch, last>>
  /\ UNCHANGED timer_vars

\* The loop resumes a task released by the latch's Event.set: Event.wait,
\* the Switch method and the counter's waiting method return.
run_counter_resume ==
  /\ Running("counter_resume")
  /\ batch' = batch - 1
  /\ ready' = Tail(ready)
  /\ LET w  == Head(ready).task
         sw == Counter_latch(ecounter, waiter[w].op)
     IN  waiter' = [waiter EXCEPT ![w] =
                      [@ EXCEPT !.pc = "returned", !.todo = <<>>,
                                !.at_return = sw.state]]
  /\ UNCHANGED <<ecounter, switch, last>>
  /\ UNCHANGED timer_vars

\* ---------------------------------------------------------- specifications
NextPulse == pulse_wait \/ pulse_fire \/ cancel \/ AdvanceClock

NextTimePulse == tp_wait \/ cancel \/ AdvanceClock \/ run_once \/ run_tp_tick

\* A ticker, tasks awaiting it (and being cancelled), a task in wait_done().
NextTicker ==
  \/ start \/ stop \/ AdvanceClock \/ run_once \/ run_tick
  \/ ticker_await \/ cancel \/ wait_done \/ run_wake_W

\* A ticker and a task iterating it.
NextIter ==
  \/ start \/ stop \/ AdvanceClock \/ run_once \/ run_tick
  \/ aiter \/ run_on_completion \/ run_wake_C \/ run_wake_D

\* A ticker and a time pulse on one loop, and tasks awaiting either.
Next ==
  \/ start \/ stop \/ AdvanceClock \/ run_once \/ run_tick
  \/ tp_wait \/ cancel \/ run_tp_tick

\* What the event loop does.
LoopStep ==
  \/ run_once \/ run_tick \/ run_on_completion \/ run_wake_D
  \/ run_task_start \/ run_wake_C \/ run_call_fn \/ run_fn_done

\* A ticker and a task spawned by run_periodically.
NextPeriodic ==
  \/ start \/ stop \/ AdvanceClock \/ run_periodically \/ fn_returns
  \/ LoopStep

\* A switch, the tasks that wait on it and the calls that change it.
NextSwitch ==
  \/ switch_set \/ switch_clear \/ switch_set_state
  \/ wait \/ wait_clear \/ wait_for \/ wait_toggle \/ wait_toggle_to
  \/ run_once \/ run_resume

\* What the event loop does for the tasks of the switch.
SwitchLoopStep == run_once \/ run_resume

\* An EventfulCounter and the calls that change it.
NextCounter ==
  \/ counter_set \/ counter_inc \/ counter_dec \/ counter_iadd \/ counter_isub
  \/ counter_set_min_value \/ counter_set_max_value

\* An EventfulCounter, the calls that change it and the tasks that wait on
\* its latches.
NextCounterWait ==
  \/ counter_set \/ counter_inc \/ counter_dec \/ counter_iadd \/ counter_isub
  \/ counter_set_min_value \/ counter_set_max_value
  \/ wait_max \/ wait_min \/ wait_max_clear \/ wait_min_clear
  \/ run_once \/ run_counter_resume

SpecPulse == InitPulse /\ [][NextPulse]_vars
SpecTimePulse == InitTimePulse /\ [][NextTimePulse]_vars
SpecTicker == InitTicker /\ [][NextTicker]_vars
SpecIter == InitTicker /\ [][NextIter]_vars
Spec == InitTimers /\ [][Next]_vars
\* The loop keeps running its handles, and the invocation of fn returns.
SpecPeriodic ==
  /\ InitTicker
  /\ [][NextPeriodic]_vars
  /\ WF_vars(LoopStep)
  /\ WF_vars(fn_returns)
SpecSwitch == InitSwitch /\ [][NextSwitch]_vars
\* The loop keeps running its handles.
SpecSwitchLive ==
  /\ InitSwitch
  /\ [][NextSwitch]_vars
  /\ WF_vars(SwitchLoopStep)
SpecCounter == InitCounter /\ [][NextCounter]_vars
SpecCounterWait == InitCounter /\ [][NextCounterWait]_vars


\* ------------------------------------------------------------------ claims
Last(q) == q[Len(q)]

\* C1: a started Ticker(count=k) that becomes done by reaching its count has
\* fired its readiness signal exactly k times, and a task that has returned
\* from wait_done() did so on a done ticker.
C1_FiresExactlyCount ==
  /\ (is_done(ticker) /\ hist.done_by = "count")
        => \A k \in ticker.count : Len(hist.fired) = k
  /\ wd = "returned" => is_done(ticker)

\* C2: a task that iterates an auto-started Ticker(count=k) from construction,
\* with a body that does not suspend, has received exactly k timestamps when
\* the iteration ends by the count.
C2_IterationYieldsCount ==
  (it.pc = "finished" /\ it.fresh /\ hist.done_by = "count")
     => \A k \in ticker.count : it.received = k

\* A fire() call of the Pulse is the step that increments its call counter.
PulseFired == pulse'.fires = pulse.fires + 1

PendingWaiters == {f \in UserFuts : futs[f].st = "pending"}

\* C3: a fire() with cancelled waiters among the pending ones completes
\* normally, resolves every non-cancelled pending waiter with the firing
\* timestamp and leaves the pending collection empty.
C3_CancelInvisible ==
  [][(PulseFired /\ \E f \in UserFuts : futs[f].st = "cancelled")
        => /\ Pulse_fire(pulse, futs, now).raised = ""
           /\ pulse'.waiters = <<>>
           /\ \A f \in PendingWaiters :
                futs'[f].st = "done" /\ futs'[f].result = {now}]_vars

\* C4: every fire() resolves every waiter pending at that moment, all with
\* the same timestamp (the pulse's fired value), empties the pending
\* collection, and changes no future that was resolved before.
C4_FireResolvesAll ==
  [][PulseFired
        => /\ pulse'.waiters = <<>>
           /\ \A f \in PendingWaiters :
                futs'[f].st = "done" /\ futs'[f].result = pulse'.value
           /\ \A f \in DOMAIN futs : futs[f].st = "done" => futs'[f] = futs[f]]_vars

\* C5: edge semantics, no replay: a future returned by wait() is pending, and
\* a pending future is resolved only by a step that is a fire() call begun
\* after its registration, however many firings went unobserved before.
C5_EdgeNoReplay ==
  [][/\ \A f \in DOMAIN futs' :
          f \notin DOMAIN futs => futs'[f].st = "pending" /\ futs'[f].result = {}
     /\ \A f \in DOMAIN futs :
          (futs[f].st = "pending" /\ futs'[f].st = "done")
             => /\ PulseFired
                /\ futs'[f].by = pulse'.fires
                /\ futs'[f].by > futs'[f].reg
                /\ futs'[f].result = {now}]_vars

\* A waiter registered after two unobserved firings was resolved by the third.
C5_Witness ==
  \E f \in DOMAIN futs :
    futs[f].reg = 2 /\ futs[f].st = "done" /\ futs[f].by = 3

\* C6: the N-th firing of a TimePulse is the one scheduled at start_time + N * period.
C6_NthDeadline ==
  \A n \in DOMAIN hist.tp_fired :
    hist.tp_fired[n] = time_pulse.start_time + n * time_pulse.period

\* C7: the N-th readiness firing of a Ticker has deadline start_time + N * period
\* and iteration_count reads N right after it.
C7_NthTick ==
  \A n \in DOMAIN hist.fired :
    /\ hist.fired[n].deadline = ticker.start_time + n * ticker.period
    /\ hist.fired[n].ic = n

\* C8: every deadline a Ticker or a TimePulse schedules is start_time + k * period,
\* with k given by the number of ticks executed, whatever the time the
\* previous tick ran at.
C8_DriftFree ==
  /\ ticker.tick_handle.set
       => ticker.tick_handle.when
            = ticker.start_time + (ticker.iteration_count - 1) * ticker.period
  /\ time_pulse.handle.set
       => time_pulse.handle.when
            = time_pulse.start_time
              + (IF time_pulse.ticks = 0 THEN 1 ELSE time_pulse.ticks) * time_pulse.period

\* Both timers have scheduled a tick from a callback that ran late.
C8_Witness ==
  /\ ticker.period > 0
  /\ ticker.tick_handle.phase = "heap"
  /\ Len(hist.fired) >= 3
  /\ \E t \in ticker.ready_pulse.value : t > Last(hist.fired).deadline
  /\ time_pulse.handle.phase = "heap"
  /\ Len(hist.tp_fired) >= 1
  /\ \E t \in time_pulse.pulse.value : t > Last(hist.tp_fired)

\* C9: done is terminal: a ticker that is done has no scheduled tick, and no
\* step from a done ticker clears done, fires the readiness signal, changes
\* iteration_count or schedules a tick.
C9_DoneTerminal ==
  [][/\ is_done(ticker') => ~Scheduled(ticker'.tick_handle)
     /\ is_done(ticker)
          => /\ is_done(ticker')
             /\ ticker'.ready_pulse.fires = ticker.ready_pulse.fires
             /\ hist'.fired = hist.fired
             /\ ticker'.iteration_count = ticker.iteration_count]_vars

\* A ticker stopped while its timer handle was in the ready queue: the loop
\* has since taken the handle off the queue, and wait_done() has returned.
C9_Witness ==
  /\ is_done(ticker)
  /\ hist.done_by = "stop"
  /\ ticker.tick_handle.phase = "run"
  /\ wd = "returned"

\* C10: stop() called in any state leaves the ticker done with no scheduled
\* tick and the event's waiters released, and a second stop() changes nothing.
C10_StopMakesDone ==
  LET r == Ticker_stop(ticker, futs)
  IN  /\ is_done(r.self)
      /\ ~Scheduled(r.self.tick_handle)
      /\ r.released = ticker.done_event.waiters
      /\ Ticker_stop(r.self, r.futs).self = r.self

\* C11: the iterating task never misses a final in-flight tick and never
\* yields after it has observed done: when the task terminates, the wait on
\* the readiness pulse it was suspended in has not been resolved by a firing
\* (a resolved one would be a tick whose timestamp it never yielded), and
\* once it has terminated it yields nothing more.
C11_FinalTickYielded ==
  [][/\ (it.pc = "waiting" /\ it'.pc = "finished") => futs[it.cur].st # "done"
     /\ it.pc = "finished" => it' = it]_vars

\* C14: start() on a ticker that is already started (by an earlier start()
\* or by the constructor's auto-start) raises and changes nothing: the
\* ticker (iteration_count, tick handle, start time, done event) and the
\* futures are as before, and the readiness pulse is not fired.
C14_StartTwiceRaises ==
  /\ (hist.auto \/ hist.fired # <<>>) => ticker.started
  /\ ticker.started =>
       LET r == Ticker_start(ticker, futs, now)
       IN  /\ r.raised = "RuntimeError"
           /\ r.self = ticker
           /\ r.futs = futs
           /\ ~r.fired /\ r.woken = <<>> /\ r.released = <<>>

\* A ticker started by start(), still running with a tick scheduled, at a
\* time later than its start time: a second start() would otherwise move
\* the start time and fire.
C14_Witness ==
  /\ ticker.started /\ ~hist.auto /\ ~is_done(ticker)
  /\ Scheduled(ticker.tick_handle)
  /\ now > ticker.start_time
  /\ Ticker_start(ticker, futs, now).raised = "RuntimeError"

\* C15: until_next raises exactly when the ticker was never started or is
\* done; for a ticker that is started and not done a tick is scheduled and
\* until_next returns the time remaining to it.
C15_UntilNextErrors ==
  LET r == Ticker_until_next(ticker, now)
  IN  /\ (r.raised # "") <=> (~ticker.started \/ is_done(ticker))
      /\ (ticker.started /\ ~is_done(ticker)) =>
            /\ Scheduled(ticker.tick_handle)
            /\ r.value = ticker.tick_handle.when - now

\* C16: after each set() / clear() / set_state(b) call on a switch of any
\* initial state, is_set() is the state requested by the most recent call
\* and is_clear() is its negation.
C16_IsSetIsLastRequest ==
  /\ \A b \in last.state : Switch_is_set(switch) = b
  /\ Switch_is_clear(switch) = ~Switch_is_set(switch)

\* The switch was turned on by a call that released a waiting task, and then
\* turned off again.
C16_Witness ==
  /\ last.state = {FALSE}
  /\ switch.ev_off.value
  /\ \E w \in Waiters : waiter[w].op = "wait" /\ waiter[w].rose

\* C17: a wait_toggle_to(state) call never returns without suspending, and
\* returns only after the switch went from the other state to `state` after
\* the call was made (off->on for true, on->off for false).
C17_ToggleWaitsForTransition ==
  \A w \in Waiters :
    (waiter[w].op = "wait_toggle_to" /\ waiter[w].pc = "returned") =>
      /\ waiter[w].suspended
      /\ waiter[w].state => waiter[w].rose
      /\ ~waiter[w].state => waiter[w].fell

\* wait_toggle_to(true) was called while the switch was on, and has
\* returned; so has a wait_toggle_to(false) called while it was off.
C17_Witness ==
  /\ waiter[1].op = "wait_toggle_to" /\ waiter[1].pc = "returned"
  /\ waiter[1].state /\ waiter[1].at_call
  /\ waiter[2].op = "wait_toggle_to" /\ waiter[2].pc = "returned"
  /\ ~waiter[2].state /\ ~waiter[2].at_call

\* C18: when wait() (wait_clear()) returns, the switch is on (off) at the
\* moment the caller resumes; and a call made while the switch is already
\* in the requested state returns without suspending.
C18_StateHoldsAtReturn ==
  \A w \in Waiters :
    (waiter[w].op \in {"wait", "wait_clear"} /\ waiter[w].pc = "returned") =>
      /\ waiter[w].at_return = waiter[w].state
      /\ waiter[w].at_call = waiter[w].state => ~waiter[w].suspended

\* C19: after every completed mutation of the counter, min_is_set() is
\* (min_value is not None and value <= min_value) and max_is_set() is
\* (max_value is not None and value >= max_value).
C19_LatchesMatchBounds ==
  /\ Counter_min_is_set(ecounter) = (\E m \in ecounter.min_value : ecounter.counter <= m)
  /\ Counter_max_is_set(ecounter) = (\E M \in ecounter.max_value : ecounter.counter >= M)

Clamp(v, lo, hi) ==
  LET a == IF lo # {} /\ v < Val(lo) THEN Val(lo) ELSE v
  IN  IF hi # {} /\ a > Val(hi) THEN Val(hi) ELSE a

\* C20: with clamp_to_bounds the value stays within the bounds that are
\* set, and set(v) leaves value = min(max(v, min_value), max_value).
C20_ClampedWithinBounds ==
  ecounter.clamp_to_bounds =>
    /\ \A m \in ecounter.min_value : m <= ecounter.counter
    /\ \A M \in ecounter.max_value : ecounter.counter <= M
    /\ (last.op = "set" /\ last.raised = "") =>
          ecounter.counter = Clamp(Val(last.arg), ecounter.min_value, ecounter.max_value)
    /\ \A v \in Values :
          Counter_set(ecounter, v).self.counter
            = Clamp(v, ecounter.min_value, ecounter.max_value)

\* A clamping counter with distinct bounds was set to a value below its
\* minimum.
C20_Witness ==
  /\ ecounter.clamp_to_bounds
  /\ last.op = "set"
  /\ \E m \in ecounter.min_value, M \in ecounter.max_value :
       /\ m < M
       /\ Val(last.arg) < m
       /\ ecounter.counter = m

\* C12: the task spawned by run_periodically(fn) invokes fn exactly once
\* per readiness firing between the spawn and done: when the task has
\* completed, fn was invoked as many times as the pulse fired since the
\* spawn.
C12_OncePerFiring ==
  (it.pc = "finished" /\ it.fn # "") => it.received = Len(hist.fired) - it.base

\* C13: a task spawned by run_periodically completes once the ticker is
\* done, whether it was spawned before or after the ticker became done.
C13_TaskCompletes ==
  (it.fn # "" /\ is_done(ticker)) ~> (it.pc = "finished")

\* A task whose fn runs in a thread (every invocation suspends) was spawned
\* before the ticker was done, has invoked fn, and has completed after
\* stop() with no resolved tick left behind.
C13_Witness ==
  /\ it.pc = "finished" /\ it.fn = "thread"
  /\ hist.done_by = "stop"
  /\ it.received >= 1
  /\ df.pc = "done" /\ futs[it.cur].st = "pending"

C22_TestExpectsValueError ==
  \A b \in Values :
    /\ (Counter_set_min_value(ecounter, {b}).raised = "ValueError")
         <=> (ecounter.clamp_to_bounds /\ b > ecounter.counter)
    /\ (Counter_set_max_value(ecounter, {b}).raised = "ValueError")
         <=> (ecounter.clamp_to_bounds /\ b < ecounter.counter)

\* C26: in every reachable state of a ticker, iteration_count is the number
\* of readiness firings performed so far.
C26_CountEqualsFirings ==
  ticker.iteration_count = Len(hist.fired)

\* C27: a ticker that has been started and is not done has a tick
\* scheduled, for every count and also when a waiter of the readiness
\* pulse was cancelled before a tick.
C27_StartedHasTick ==
  (ticker.started /\ ~is_done(ticker)) => Scheduled(ticker.tick_handle)

\* C24: set() on a switch that is on, and clear() on one that is off,
\* change nothing (state, both events and their waiters) and wake nobody;
\* so does the set_state call of the constructor, which leaves a new
\* switch with both events unset.
C24_Idempotent ==
  /\ switch.state => Switch_set(switch) = Kept(switch)
  /\ ~switch.state => Switch_clear(switch) = Kept(switch)
  /\ \A b \in BOOLEAN :
       Switch_new(b) = [state |-> b, ev_on |-> NewEvent, ev_off |-> NewEvent]

\* set() was the most recent call on a switch that is on, while a task is
\* suspended waiting for it to go off and the "on" event has never been
\* set (the switch was constructed on).
C24_Witness ==
  /\ switch.state /\ last.state = {TRUE}
  /\ ~switch.ev_on.value
  /\ switch.ev_off.waiters # <<>>

\* C23: no missed wakeup: a task suspended in wait() when set() turns the
\* switch on (in wait_clear() when clear() turns it off) is eventually
\* resumed, whatever is called on the switch before it runs again.
C23_NoMissedWakeup ==
  \A w \in Waiters : waiter[w].due ~> ~waiter[w].due

\* A task suspended in wait() saw the switch go on, and was resumed and
\* returned after the switch had gone off again.
C23_Witness ==
  \E w \in Waiters :
    /\ waiter[w].op = "wait" /\ waiter[w].pc = "returned"
    /\ waiter[w].suspended /\ waiter[w].rose /\ waiter[w].fell
    /\ ~waiter[w].at_return /\ ~waiter[w].due

\* The task's wake-up is in the loop's ready queue.
Released(w) ==
  \E i \in DOMAIN ready : ready[i].kind = "counter_resume" /\ ready[i].task = w

AtMax == \E M \in ecounter.max_value : ecounter.counter >= M
AtMin == \E m \in ecounter.min_value : ecounter.counter <= m

\* What a waiting method of the counter waits for.
Awaited(op) ==
  CASE op = "wait_max"       -> AtMax
    [] op = "wait_max_clear" -> ~AtMax
    [] op = "wait_min"       -> AtMin
    [] op = "wait_min_clear" -> ~AtMin

\* C25: a task suspended in wait_max() / wait_max_clear() / wait_min() /
\* wait_min_clear() is released by any mutation that makes what it waits
\* for true (value >= max_value; value < max_value or no max_value; ...),
\* and a call made while that already holds returns without suspending: so
\* no task is suspended, with no wake-up on its way, while what it waits
\* for holds.
C25_WaitersReleased ==
  \A w \in Waiters :
    (waiter[w].pc = "suspended" /\ ~Released(w)) => ~Awaited(waiter[w].op)
====
